---- MODULE Spec2Model ----
(***************************************************************************)
(* A model of github.com/thisisthemurph/hx: the header decorator chain     *)
(* (SetHeaders), the plain key/value decorators and the trigger-header     *)
(* merge (trigger / triggerWithDetail).                                    *)
(*                                                                         *)
(* A Go string is a sequence of one-character strings, so that splitting,  *)
(* trimming, joining, JSON parsing and JSON serialization are computed     *)
(* character by character, as the library code computes them.              *)
(***************************************************************************)
EXTENDS Integers, Sequences, FiniteSets, TLC

(***************************************************************************)
(* Bounds of the model.                                                    *)
(***************************************************************************)
\* The longest decorator chain handed to one SetHeaders call.
MaxChain == 3
\* The number of decorators applied directly to one response recorder.
MaxApplied == 2

(***************************************************************************)
(* Header names (types.go).                                                *)
(***************************************************************************)
HeaderLocation == "HX-Location"
HeaderPushURL == "HX-Push-Url"
HeaderRedirect == "HX-Redirect"
HeaderRefresh == "HX-Refresh"
HeaderReplaceURL == "HX-Replace-Url"
HeaderReswap == "HX-Reswap"
HeaderRetarget == "HX-Retarget"
HeaderReselect == "HX-Reselect"
HeaderTrigger == "HX-Trigger"
HeaderTriggerAfterSettle == "HX-Trigger-After-Settle"
HeaderTriggerAfterSwap == "HX-Trigger-After-Swap"

TriggerHeaders == {HeaderTrigger, HeaderTriggerAfterSettle, HeaderTriggerAfterSwap}
HeaderKeys ==
    TriggerHeaders \cup {HeaderLocation, HeaderPushURL, HeaderRedirect, HeaderRefresh,
                         HeaderReplaceURL, HeaderReswap, HeaderRetarget, HeaderReselect}

(***************************************************************************)
(* strings: TrimSpace, Split on ",", Join with ", ".                       *)
(***************************************************************************)
\* unicode.IsSpace restricted to the characters of the model's inputs.
IsSpace(c) == c \in {" ", "\t", "\n", "\r"}

RECURSIVE TrimLeft(_)
TrimLeft(s) == IF s # <<>> /\ IsSpace(Head(s)) THEN TrimLeft(Tail(s)) ELSE s

RECURSIVE TrimRight(_)
TrimRight(s) ==
    IF s # <<>> /\ IsSpace(s[Len(s)]) THEN TrimRight(SubSeq(s, 1, Len(s) - 1)) ELSE s

\* strings.TrimSpace
TrimSpace(s) == TrimRight(TrimLeft(s))

\* strings.Split(s, ","): Split("") is the one-element list [""].
RECURSIVE Split(_)
Split(s) ==
    IF \A k \in 1..Len(s) : s[k] # ","
    THEN <<s>>
    ELSE LET k == CHOOSE k \in 1..Len(s) : s[k] = "," /\ \A j \in 1..(k - 1) : s[j] # ","
         IN  <<SubSeq(s, 1, k - 1)>> \o Split(SubSeq(s, k + 1, Len(s)))

\* strings.Join(list, ", ")
RECURSIVE Join(_)
Join(list) ==
    IF list = <<>> THEN <<>>
    ELSE IF Len(list) = 1 THEN list[1]
    ELSE list[1] \o <<",", " ">> \o Join(Tail(list))

\* strings.TrimSpace applied to every element, as the two append loops do.
TrimAll(list) == [k \in 1..Len(list) |-> TrimSpace(list[k])]

(***************************************************************************)
(* Swap (types.go): the enum, its wire strings and their decoding.         *)
(***************************************************************************)
SwapInnerHTML == 0
SwapOuterHTML == 1
SwapBeforeBegin == 2
SwapAfterBegin == 3
SwapBeforeEnd == 4
SwapAfterEnd == 5
SwapDelete == 6
SwapNone == 7
Swaps == {SwapInnerHTML, SwapOuterHTML, SwapBeforeBegin, SwapAfterBegin,
          SwapBeforeEnd, SwapAfterEnd, SwapDelete, SwapNone}

\* A String that gives SwapAfterEnd the wire string of SwapBeforeEnd.
StringAfterEndAsBeforeEnd(s) ==
    CASE s = SwapOuterHTML -> <<"o", "u", "t", "e", "r", "H", "T", "M", "L">>
      [] s = SwapBeforeBegin -> <<"b", "e", "f", "o", "r", "e", "b", "e", "g", "i", "n">>
      [] s = SwapAfterBegin -> <<"a", "f", "t", "e", "r", "b", "e", "g", "i", "n">>
      [] s = SwapBeforeEnd -> <<"b", "e", "f", "o", "r", "e", "e", "n", "d">>
      [] s = SwapAfterEnd -> <<"b", "e", "f", "o", "r", "e", "e", "n", "d">>
      [] s = SwapDelete -> <<"d", "e", "l", "e", "t", "e">>
      [] s = SwapNone -> <<"n", "o", "n", "e">>
      [] OTHER -> <<"i", "n", "n", "e", "r", "H", "T", "M", "L">>

\* func (s Swap) String() string
String(s) ==
    CASE s = SwapOuterHTML -> <<"o", "u", "t", "e", "r", "H", "T", "M", "L">>
      [] s = SwapBeforeBegin -> <<"b", "e", "f", "o", "r", "e", "b", "e", "g", "i", "n">>
      [] s = SwapAfterBegin -> <<"a", "f", "t", "e", "r", "b", "e", "g", "i", "n">>
      [] s = SwapBeforeEnd -> <<"b", "e", "f", "o", "r", "e", "e", "n", "d">>
      [] s = SwapAfterEnd -> <<"a", "f", "t", "e", "r", "e", "n", "d">>
      [] s = SwapDelete -> <<"d", "e", "l", "e", "t", "e">>
      [] s = SwapNone -> <<"n", "o", "n", "e">>
      [] OTHER -> <<"i", "n", "n", "e", "r", "H", "T", "M", "L">>

\* A SwapFromString that trims the white space around its input.
SwapFromStringTrims(s) ==
    CASE TrimSpace(s) = <<"i", "n", "n", "e", "r", "H", "T", "M", "L">> -> [swap |-> SwapInnerHTML, err |-> "nil"]
      [] TrimSpace(s) = <<"o", "u", "t", "e", "r", "H", "T", "M", "L">> -> [swap |-> SwapOuterHTML, err |-> "nil"]
      [] TrimSpace(s) = <<"b", "e", "f", "o", "r", "e", "b", "e", "g", "i", "n">> -> [swap |-> SwapBeforeBegin, err |-> "nil"]
      [] TrimSpace(s) = <<"a", "f", "t", "e", "r", "b", "e", "g", "i", "n">> -> [swap |-> SwapAfterBegin, err |-> "nil"]
      [] TrimSpace(s) = <<"b", "e", "f", "o", "r", "e", "e", "n", "d">> -> [swap |-> SwapBeforeEnd, err |-> "nil"]
      [] TrimSpace(s) = <<"a", "f", "t", "e", "r", "e", "n", "d">> -> [swap |-> SwapAfterEnd, err |-> "nil"]
      [] TrimSpace(s) = <<"d", "e", "l", "e", "t", "e">> -> [swap |-> SwapDelete, err |-> "nil"]
      [] TrimSpace(s) = <<"n", "o", "n", "e">> -> [swap |-> SwapNone, err |-> "nil"]
      [] OTHER -> [swap |-> SwapInnerHTML, err |-> "invalid Swap value"]

\* func SwapFromString(s string) (Swap, error); the error message also quotes s.
SwapFromString(s) ==
    CASE s = <<"i", "n", "n", "e", "r", "H", "T", "M", "L">> -> [swap |-> SwapInnerHTML, err |-> "nil"]
      [] s = <<"o", "u", "t", "e", "r", "H", "T", "M", "L">> -> [swap |-> SwapOuterHTML, err |-> "nil"]
      [] s = <<"b", "e", "f", "o", "r", "e", "b", "e", "g", "i", "n">> -> [swap |-> SwapBeforeBegin, err |-> "nil"]
      [] s = <<"a", "f", "t", "e", "r", "b", "e", "g", "i", "n">> -> [swap |-> SwapAfterBegin, err |-> "nil"]
      [] s = <<"b", "e", "f", "o", "r", "e", "e", "n", "d">> -> [swap |-> SwapBeforeEnd, err |-> "nil"]
      [] s = <<"a", "f", "t", "e", "r", "e", "n", "d">> -> [swap |-> SwapAfterEnd, err |-> "nil"]
      [] s = <<"d", "e", "l", "e", "t", "e">> -> [swap |-> SwapDelete, err |-> "nil"]
      [] s = <<"n", "o", "n", "e">> -> [swap |-> SwapNone, err |-> "nil"]
      [] OTHER -> [swap |-> SwapInnerHTML, err |-> "invalid Swap value"]

StringToSwap(s) == SwapFromString(s)

(***************************************************************************)
(* Byte order of strings, which encoding/json uses to sort map keys.       *)
(***************************************************************************)
\* The ASCII codes of the characters that occur in the model's inputs.
Code(c) ==
    CASE c = "\t" -> 9   [] c = "\n" -> 10  [] c = "\r" -> 13  [] c = " " -> 32
      [] c = "\"" -> 34  [] c = "," -> 44   [] c = "-" -> 45   [] c = "0" -> 48
      [] c = "1" -> 49   [] c = "2" -> 50   [] c = ":" -> 58   [] c = "A" -> 65
      [] c = "[" -> 91   [] c = "\\" -> 92  [] c = "]" -> 93   [] c = "a" -> 97
      [] c = "b" -> 98   [] c = "d" -> 100  [] c = "e" -> 101  [] c = "f" -> 102
      [] c = "l" -> 108  [] c = "m" -> 109  [] c = "n" -> 110  [] c = "r" -> 114
      [] c = "s" -> 115  [] c = "t" -> 116  [] c = "u" -> 117  [] c = "x" -> 120
      [] c = "{" -> 123  [] c = "}" -> 125

\* strings.Compare(a, b) < 0
RECURSIVE Less(_, _)
Less(a, b) ==
    IF b = <<>> THEN FALSE
    ELSE IF a = <<>> THEN TRUE
    ELSE IF Head(a) # Head(b) THEN Code(Head(a)) < Code(Head(b))
    ELSE Less(Tail(a), Tail(b))

\* The keys of a map in the order encoding/json writes them.
RECURSIVE SortedKeys(_)
SortedKeys(S) ==
    IF S = {} THEN <<>>
    ELSE LET min == CHOOSE a \in S : \A b \in S \ {a} : Less(a, b)
         IN  <<min>> \o SortedKeys(S \ {min})

(***************************************************************************)
(* Go values held in an `any`: the details of events and what               *)
(* json.Unmarshal stores. A number is kept as its decimal digits.           *)
(***************************************************************************)
Nil == [t |-> "nil"]
Bool(b) == [t |-> "bool", v |-> b]
Num(digits) == [t |-> "float64", v |-> digits]
Str(s) == [t |-> "string", v |-> s]
Slice(elems) == [t |-> "slice", v |-> elems]
\* map[string]any: a function from keys to values.
Map(m) == [t |-> "map", v |-> m]
\* A struct with json tags: its fields in declaration order.
Struct(fields) == [t |-> "struct", v |-> fields]
\* A value encoding/json cannot serialize; kind names the Go type.
Unsupported(kind) == [t |-> "unsupported", v |-> kind]

EmptyMap == [k \in {} |-> Nil]
MapSet(m, key, val) == [k \in (DOMAIN m) \cup {key} |-> IF k = key THEN val ELSE m[k]]

(***************************************************************************)
(* encoding/json, decoding. The grammar is the one of RFC 8259 over the    *)
(* characters of the model's inputs: numbers are integers (no input holds  *)
(* a fraction or an exponent) and the string escapes are \", \\, \/, \n,   *)
(* \r and \t (a backslash enters a header only through Marshal's escaping  *)
(* of a quote or a backslash).                                             *)
(***************************************************************************)
IsJSONSpace(c) == c \in {" ", "\t", "\n", "\r"}
IsDigit(c) == c \in {"0", "1", "2", "3", "4", "5", "6", "7", "8", "9"}

RECURSIVE SkipSpace(_, _)
SkipSpace(s, i) == IF i <= Len(s) /\ IsJSONSpace(s[i]) THEN SkipSpace(s, i + 1) ELSE i

RECURSIVE SkipDigits(_, _)
SkipDigits(s, i) == IF i <= Len(s) /\ IsDigit(s[i]) THEN SkipDigits(s, i + 1) ELSE i

SyntaxError == [ok |-> FALSE, v |-> Nil, i |-> 0]
Parsed(val, next) == [ok |-> TRUE, v |-> val, i |-> next]

ParseLiteral(s, i, word, val) ==
    IF i + Len(word) - 1 <= Len(s) /\ SubSeq(s, i, i + Len(word) - 1) = word
    THEN Parsed(val, i + Len(word))
    ELSE SyntaxError

\* -? (0 | [1-9][0-9]*)
ParseNumber(s, i) ==
    LET d == IF s[i] = "-" THEN i + 1 ELSE i
        e == IF d <= Len(s) /\ s[d] = "0" THEN d + 1 ELSE SkipDigits(s, d)
    IN  IF e = d THEN SyntaxError ELSE Parsed(Num(SubSeq(s, i, e - 1)), e)

Unescape(c) == CASE c = "n" -> "\n" [] c = "r" -> "\r" [] c = "t" -> "\t" [] OTHER -> c

\* The characters of a string literal after its opening quote.
RECURSIVE ParseChars(_, _, _)
ParseChars(s, i, acc) ==
    IF i > Len(s) THEN SyntaxError
    ELSE IF s[i] = "\"" THEN Parsed(Str(acc), i + 1)
    ELSE IF s[i] = "\\"
         THEN IF i + 1 <= Len(s) /\ s[i + 1] \in {"\"", "\\", "/", "n", "r", "t"}
              THEN ParseChars(s, i + 2, Append(acc, Unescape(s[i + 1])))
              ELSE SyntaxError
    ELSE IF s[i] \in {"\t", "\n", "\r"} THEN SyntaxError
    ELSE ParseChars(s, i + 1, Append(acc, s[i]))

RECURSIVE ParseValue(_, _)
RECURSIVE ParseMembers(_, _, _)
RECURSIVE ParseElements(_, _, _)

\* The members of an object from the key at i on; a repeated key keeps its last value.
ParseMembers(s, i, m) ==
    IF i > Len(s) \/ s[i] # "\"" THEN SyntaxError
    ELSE LET key == ParseChars(s, i + 1, <<>>)
             colon == SkipSpace(s, key.i)
             val == ParseValue(s, SkipSpace(s, colon + 1))
             after == SkipSpace(s, val.i)
         IN  IF ~key.ok \/ colon > Len(s) \/ s[colon] # ":" THEN SyntaxError
             ELSE IF ~val.ok \/ after > Len(s) THEN SyntaxError
             ELSE IF s[after] = "}" THEN Parsed(Map(MapSet(m, key.v.v, val.v)), after + 1)
             ELSE IF s[after] = ","
                  THEN ParseMembers(s, SkipSpace(s, after + 1), MapSet(m, key.v.v, val.v))
             ELSE SyntaxError

\* The elements of an array from the value at i on.
ParseElements(s, i, elems) ==
    LET val == ParseValue(s, i)
        after == SkipSpace(s, val.i)
    IN  IF ~val.ok \/ after > Len(s) THEN SyntaxError
        ELSE IF s[after] = "]" THEN Parsed(Slice(Append(elems, val.v)), after + 1)
        ELSE IF s[after] = ","
             THEN ParseElements(s, SkipSpace(s, after + 1), Append(elems, val.v))
        ELSE SyntaxError

\* One JSON value starting at i (the white space before it already skipped).
ParseValue(s, i) ==
    IF i > Len(s) THEN SyntaxError
    ELSE IF s[i] = "{"
         THEN LET j == SkipSpace(s, i + 1)
              IN  IF j <= Len(s) /\ s[j] = "}" THEN Parsed(Map(EmptyMap), j + 1)
                  ELSE ParseMembers(s, j, EmptyMap)
    ELSE IF s[i] = "["
         THEN LET j == SkipSpace(s, i + 1)
              IN  IF j <= Len(s) /\ s[j] = "]" THEN Parsed(Slice(<<>>), j + 1)
                  ELSE ParseElements(s, j, <<>>)
    ELSE IF s[i] = "\"" THEN ParseChars(s, i + 1, <<>>)
    ELSE IF s[i] = "n" THEN ParseLiteral(s, i, <<"n", "u", "l", "l">>, Nil)
    ELSE IF s[i] = "t" THEN ParseLiteral(s, i, <<"t", "r", "u", "e">>, Bool(TRUE))
    ELSE IF s[i] = "f" THEN ParseLiteral(s, i, <<"f", "a", "l", "s", "e">>, Bool(FALSE))
    ELSE IF s[i] = "-" \/ IsDigit(s[i]) THEN ParseNumber(s, i)
    ELSE SyntaxError

\* The whole text is one JSON value between optional white space.
Decode(data) ==
    LET val == ParseValue(data, SkipSpace(data, 1))
    IN  IF val.ok /\ SkipSpace(data, val.i) = Len(data) + 1 THEN val ELSE SyntaxError

\* json.Unmarshal(data, &js) with js an interface{}: err == nil.
UnmarshalAnyOk(data) == Decode(data).ok

\* json.Unmarshal(data, &triggerEvents) with triggerEvents an empty map[string]any:
\* the map afterwards and whether err == nil. A JSON object fills the map, null
\* sets it to nil without an error, and any other text is an error that leaves
\* the map as it was.
NilMap == [t |-> "nilmap"]
StoreInMap(val) ==
    IF val.ok /\ val.v.t = "map" THEN [ok |-> TRUE, m |-> val.v]
    ELSE IF val.ok /\ val.v.t = "nil" THEN [ok |-> TRUE, m |-> NilMap]
    ELSE [ok |-> FALSE, m |-> Map(EmptyMap)]
UnmarshalMap(data) == StoreInMap(Decode(data))

(***************************************************************************)
(* encoding/json, encoding.                                                *)
(***************************************************************************)
RECURSIVE Escape(_)
Escape(s) ==
    IF s = <<>> THEN <<>>
    ELSE LET c == Head(s)
             e == CASE c = "\"" -> <<"\\", "\"">>
                    [] c = "\\" -> <<"\\", "\\">>
                    [] c = "\n" -> <<"\\", "n">>
                    [] c = "\r" -> <<"\\", "r">>
                    [] c = "\t" -> <<"\\", "t">>
                    [] OTHER -> <<c>>
         IN  e \o Escape(Tail(s))

Quote(s) == <<"\"">> \o Escape(s) \o <<"\"">>

Encoded(text) == [ok |-> TRUE, s |-> text, err |-> "nil"]
EncodeError(kind) == [ok |-> FALSE, s |-> <<>>, err |-> kind]
UnsupportedTypeError(kind) == EncodeError("json: unsupported type: " \o kind)

RECURSIVE Encode(_)
RECURSIVE EncodeMembers(_, _, _)
RECURSIVE EncodeFields(_, _)
RECURSIVE EncodeElements(_, _)

\* "k1":v1,"k2":v2 for the keys in the given order; the first failure ends it.
EncodeMembers(m, keys, first) ==
    IF keys = <<>> THEN Encoded(<<>>)
    ELSE LET val == Encode(m[Head(keys)])
             rest == EncodeMembers(m, Tail(keys), FALSE)
             sep == IF first THEN <<>> ELSE <<",">>
         IN  IF ~val.ok THEN val
             ELSE IF ~rest.ok THEN rest
             ELSE Encoded(sep \o Quote(Head(keys)) \o <<":">> \o val.s \o rest.s)

EncodeFields(fields, first) ==
    IF fields = <<>> THEN Encoded(<<>>)
    ELSE LET val == Encode(Head(fields).value)
             rest == EncodeFields(Tail(fields), FALSE)
             sep == IF first THEN <<>> ELSE <<",">>
         IN  IF ~val.ok THEN val
             ELSE IF ~rest.ok THEN rest
             ELSE Encoded(sep \o Quote(Head(fields).name) \o <<":">> \o val.s \o rest.s)

EncodeElements(elems, first) ==
    IF elems = <<>> THEN Encoded(<<>>)
    ELSE LET val == Encode(Head(elems))
             rest == EncodeElements(Tail(elems), FALSE)
             sep == IF first THEN <<>> ELSE <<",">>
         IN  IF ~val.ok THEN val
             ELSE IF ~rest.ok THEN rest
             ELSE Encoded(sep \o val.s \o rest.s)

Wrap(open, body, close) == IF body.ok THEN Encoded(<<open>> \o body.s \o <<close>>) ELSE body

Encode(val) ==
    CASE val.t = "nil" -> Encoded(<<"n", "u", "l", "l">>)
      [] val.t = "nilmap" -> Encoded(<<"n", "u", "l", "l">>)
      [] val.t = "bool" ->
            Encoded(IF val.v THEN <<"t", "r", "u", "e">> ELSE <<"f", "a", "l", "s", "e">>)
      [] val.t = "float64" -> Encoded(val.v)
      [] val.t = "string" -> Encoded(Quote(val.v))
      [] val.t = "slice" -> Wrap("[", EncodeElements(val.v, TRUE), "]")
      [] val.t = "map" -> Wrap("{", EncodeMembers(val.v, SortedKeys(DOMAIN val.v), TRUE), "}")
      [] val.t = "struct" -> Wrap("{", EncodeFields(val.v, TRUE), "}")
      [] val.t = "unsupported" -> UnsupportedTypeError(val.v)

\* json.Marshal(triggerEvents)
Marshal(val) == Encode(val)

(***************************************************************************)
(* The header sink: http.Header, a map from header name to a list of       *)
(* values. An absent header is the empty list; Set stores a one-element    *)
(* list and Get returns the first element, or "" when there is none.       *)
(***************************************************************************)
NoHeaders == [key \in HeaderKeys |-> <<>>]
Get(h, key) == IF h[key] = <<>> THEN <<>> ELSE h[key][1]
Set(h, key, value) == [h EXCEPT ![key] = <<value>>]
Present(h, key) == h[key] # <<>>

(***************************************************************************)
(* Decorators. A HeaderDecorator is a closure: a record of the function    *)
(* that built it and of the arguments it closed over. Applying it to a     *)
(* header sink gives the headers afterwards and the error returned, or     *)
(* says that the call panicked.                                            *)
(***************************************************************************)
Returned(h, err) == [h |-> h, err |-> err, panic |-> FALSE]
Panicked(h) == [h |-> h, err |-> "none", panic |-> TRUE]

SetHeader(key, value) == [fn |-> "SetHeader", key |-> key, value |-> value]
trigger(header, eventNames) ==
    [fn |-> "trigger", header |-> header, eventNames |-> eventNames]
triggerWithDetail(header, events) ==
    [fn |-> "triggerWithDetail", header |-> header, events |-> events]

NewTriggerEvent(name, detail) == [Name |-> name, Detail |-> detail]

Location(location) == SetHeader(HeaderLocation, location)
PushURL(url) == SetHeader(HeaderPushURL, url)
PreventPushURL == PushURL(<<"f", "a", "l", "s", "e">>)
Redirect(path) == SetHeader(HeaderRedirect, path)
Refresh == SetHeader(HeaderRefresh, <<"t", "r", "u", "e">>)
PreventRefresh == SetHeader(HeaderRefresh, <<"f", "a", "l", "s", "e">>)
ReplaceURL(url) == SetHeader(HeaderReplaceURL, url)
PreventReplaceURL == ReplaceURL(<<"f", "a", "l", "s", "e">>)
Reselect(selector) == SetHeader(HeaderReselect, selector)
Reswap(swap) == SetHeader(HeaderReswap, String(swap))
Retarget(target) == SetHeader(HeaderRetarget, target)
Trigger(eventNames) == trigger(HeaderTrigger, eventNames)
TriggerAfterSwap(eventNames) == trigger(HeaderTriggerAfterSwap, eventNames)
TriggerAfterSettle(eventNames) == trigger(HeaderTriggerAfterSettle, eventNames)
TriggerWithDetail(events) == triggerWithDetail(HeaderTrigger, events)
TriggerAfterSettleWithDetail(events) == triggerWithDetail(HeaderTriggerAfterSettle, events)
TriggerAfterSwapWithDetail(events) == triggerWithDetail(HeaderTriggerAfterSwap, events)

\* A SetHeader that keeps the value a header already has.
SetHeaderKeepsFirst(key, value, h) ==
    Returned(IF Present(h, key) THEN h ELSE Set(h, key, value), "nil")

\* The closure SetHeader returns.
SetHeaderApply(key, value, h) == Returned(Set(h, key, value), "nil")

\* triggerEvents[eventName] = nil for every name of the list, in order.
RECURSIVE NamesToEvents(_, _)
NamesToEvents(names, m) ==
    IF names = <<>> THEN m ELSE NamesToEvents(Tail(names), MapSet(m, Head(names), Nil))

\* A store of the new events that keeps the first detail given for a name.
RECURSIVE OverlayKeepsFirst(_, _)
OverlayKeepsFirst(m, events) ==
    IF events = <<>> THEN m
    ELSE OverlayKeepsFirst(MapSet(m, events[Len(events)].Name, events[Len(events)].Detail),
                           SubSeq(events, 1, Len(events) - 1))

\* A store of the new events under their trimmed names.
RECURSIVE OverlayTrimsNames(_, _)
OverlayTrimsNames(m, events) ==
    IF events = <<>> THEN m
    ELSE OverlayTrimsNames(MapSet(m, TrimSpace(Head(events).Name), Head(events).Detail),
                           Tail(events))

\* triggerEvents[event.Name] = event.Detail for every event, in order.
RECURSIVE Overlay(_, _)
Overlay(m, events) ==
    IF events = <<>> THEN m
    ELSE Overlay(MapSet(m, Head(events).Name, Head(events).Detail), Tail(events))

\* triggerEvents as it is before the new events are stored: empty when the header
\* has no value, what Unmarshal made of the header when it reported no error,
\* and otherwise the trimmed names of the comma separated list, each with nil.
\* A conversion of the comma separated names that does not trim them.
ExistingEventsUntrimmed(currentHeaderValue, parsed) ==
    IF currentHeaderValue = <<>> THEN Map(EmptyMap)
    ELSE IF parsed.ok THEN parsed.m
    ELSE Map(NamesToEvents(Split(currentHeaderValue), EmptyMap))

\* A conversion that drops the comma separated names.
ExistingEventsDropsList(currentHeaderValue, parsed) ==
    IF currentHeaderValue = <<>> THEN Map(EmptyMap)
    ELSE IF parsed.ok THEN parsed.m
    ELSE Map(EmptyMap)

\* A conversion that drops the events of a JSON object the header holds.
ExistingEventsDropsObject(currentHeaderValue, parsed) ==
    IF currentHeaderValue = <<>> THEN Map(EmptyMap)
    ELSE IF parsed.ok THEN Map(EmptyMap)
    ELSE Map(NamesToEvents(TrimAll(Split(currentHeaderValue)), EmptyMap))

ExistingEvents(currentHeaderValue, parsed) ==
    IF currentHeaderValue = <<>> THEN Map(EmptyMap)
    ELSE IF parsed.ok THEN parsed.m
    ELSE Map(NamesToEvents(TrimAll(Split(currentHeaderValue)), EmptyMap))
CurrentEvents(currentHeaderValue) ==
    ExistingEvents(currentHeaderValue, UnmarshalMap(currentHeaderValue))

\* The new events stored in triggerEvents. Storing an event in the nil map that
\* Unmarshal leaves for the text null is a run-time panic.
StoreEvents(triggerEvents, events) ==
    IF triggerEvents = NilMap
    THEN [panic |-> events # <<>>, m |-> NilMap]
    ELSE [panic |-> FALSE, m |-> Map(Overlay(triggerEvents.v, events))]

\* A write that clears the header when json.Marshal fails.
WriteEventsClearsOnError(header, h, data) ==
    IF ~data.ok THEN Returned(Set(h, header, <<>>), data.err)
    ELSE Returned(Set(h, header, data.s), "nil")

\* data, err := json.Marshal(triggerEvents), and the header set if err is nil.
WriteEvents(header, h, data) ==
    IF ~data.ok THEN Returned(h, data.err) ELSE Returned(Set(h, header, data.s), "nil")

MarshalEvents(header, h, stored) ==
    IF stored.panic THEN Panicked(h) ELSE WriteEvents(header, h, Marshal(stored.m))

\* A triggerWithDetail that reads the events of HX-Trigger whatever its header is.
triggerWithDetailReadsTrigger(header, events, h) ==
    MarshalEvents(header, h, StoreEvents(CurrentEvents(Get(h, HeaderTrigger)), events))

\* The closure triggerWithDetail returns.
triggerWithDetailApply(header, events, h) ==
    MarshalEvents(header, h, StoreEvents(CurrentEvents(Get(h, header)), events))

\* A trigger that appends the new names as they are given.
triggerAppendsUntrimmed(header, eventNames, h) ==
    LET currentHeaderValues == Get(h, header)
        events == [k \in 1..Len(eventNames) |-> NewTriggerEvent(eventNames[k], Nil)]
        eventList == (IF currentHeaderValues # <<>>
                      THEN TrimAll(Split(currentHeaderValues)) ELSE <<>>)
                     \o eventNames
    IN  IF currentHeaderValues # <<>> /\ UnmarshalAnyOk(currentHeaderValues)
        THEN triggerWithDetailApply(header, events, h)
        ELSE Returned(Set(h, header, Join(eventList)), "nil")

\* A trigger that trims neither the names the header holds nor the new names.
triggerJoinsUntrimmed(header, eventNames, h) ==
    LET currentHeaderValues == Get(h, header)
        events == [k \in 1..Len(eventNames) |-> NewTriggerEvent(eventNames[k], Nil)]
        eventList == (IF currentHeaderValues # <<>> THEN Split(currentHeaderValues) ELSE <<>>)
                     \o eventNames
    IN  IF currentHeaderValues # <<>> /\ UnmarshalAnyOk(currentHeaderValues)
        THEN triggerWithDetailApply(header, events, h)
        ELSE Returned(Set(h, header, Join(eventList)), "nil")

\* A trigger that appends to the header as to a list, whatever the header holds.
triggerAlwaysJoins(header, eventNames, h) ==
    LET currentHeaderValues == Get(h, header)
        eventList == (IF currentHeaderValues # <<>>
                      THEN TrimAll(Split(currentHeaderValues)) ELSE <<>>)
                     \o TrimAll(eventNames)
    IN  Returned(Set(h, header, Join(eventList)), "nil")

\* A trigger that replaces the comma separated names the header holds.
triggerReplacesList(header, eventNames, h) ==
    LET currentHeaderValues == Get(h, header)
        events == [k \in 1..Len(eventNames) |-> NewTriggerEvent(eventNames[k], Nil)]
    IN  IF currentHeaderValues # <<>> /\ UnmarshalAnyOk(currentHeaderValues)
        THEN triggerWithDetailApply(header, events, h)
        ELSE Returned(Set(h, header, Join(TrimAll(eventNames))), "nil")

\* The closure trigger returns.
triggerApply(header, eventNames, h) ==
    LET currentHeaderValues == Get(h, header)
        events == [k \in 1..Len(eventNames) |-> NewTriggerEvent(eventNames[k], Nil)]
        eventList == (IF currentHeaderValues # <<>>
                      THEN TrimAll(Split(currentHeaderValues)) ELSE <<>>)
                     \o TrimAll(eventNames)
    IN  IF currentHeaderValues # <<>> /\ UnmarshalAnyOk(currentHeaderValues)
        THEN triggerWithDetailApply(header, events, h)
        ELSE Returned(Set(h, header, Join(eventList)), "nil")

\* fn(w)
Call(fn, h) ==
    CASE fn.fn = "SetHeader" -> SetHeaderApply(fn.key, fn.value, h)
      [] fn.fn = "trigger" -> triggerApply(fn.header, fn.eventNames, h)
      [] fn.fn = "triggerWithDetail" -> triggerWithDetailApply(fn.header, fn.events, h)

(***************************************************************************)
(* Inputs: the strings, details, events and decorators the model draws     *)
(* its calls from.                                                         *)
(***************************************************************************)
NullText == <<"n", "u", "l", "l">>
\* {"a":{"m":"x"}, "b":1} and a trailing blank
ObjectText ==
    <<"{", "\"", "a", "\"", ":", "{", "\"", "m", "\"", ":", "\"", "x", "\"", "}", ",",
      " ", "\"", "b", "\"", ":", "1", "}", " ">>

\* struct{ Message string `json:"msg"`; Level int `json:"level"` }, with tags m and l
StructDetail ==
    Struct(<<[name |-> <<"m">>, value |-> Str(<<"x", "\"">>)],
             [name |-> <<"l">>, value |-> Num(<<"2">>)]>>)

\* The values a trigger header holds before the decorators under test run.
PriorValues ==
    { <<>>,                                   \* set to the empty string
      <<"a">>,
      <<" ", "a", " ", ",", "b", ",">>,       \* " a ,b," : untrimmed and empty pieces
      ObjectText,
      <<"1">>,                                \* JSON, but no object
      <<"[", "1", "]">>,
      NullText }

\* The eventNames of the name-only decorators.
NameLists ==
    { <<>>,
      << <<"a">> >>,
      << <<" ", "b", " ">>, <<"a">> >>,
      << <<"a">>, <<"a">> >>,
      << <<"a", ",", "b">> >>,
      << <<"1">> >>,
      << NullText >>,
      << <<"{", "\"", "a", "\"", ":", "1">> >>,     \* {"a":1
      << <<"\"", "b", "\"", ":", "2", "}">> >> }    \* "b":2}

\* The events of the with-detail decorators.
EventLists ==
    { <<>>,
      << NewTriggerEvent(<<"a">>, Str(<<"d">>)) >>,
      << NewTriggerEvent(<<"a">>, Nil) >>,
      << NewTriggerEvent(<<"b">>, StructDetail),
         NewTriggerEvent(<<" ", "a">>, Slice(<<Str(<<"a">>), Nil>>)),
         NewTriggerEvent(<<"b">>, Num(<<"1">>)) >>,
      << NewTriggerEvent(<<"a">>, Bool(TRUE)),
         NewTriggerEvent(<<"e">>, Unsupported("chan int")) >>,
      << NewTriggerEvent(<<"A">>, Str(<<"d">>)),
         NewTriggerEvent(<<"a", " ">>, Num(<<"2">>)) >> }

\* The decorators applied one by one to a recorder.
MergeDecorators ==
    {Trigger(names) : names \in NameLists}
    \cup {TriggerWithDetail(events) : events \in EventLists}
    \cup {TriggerWithDetail(<< NewTriggerEvent(<<"b">>, StructDetail) >>)}
    \cup {TriggerAfterSettle(<< <<"a">> >>),
          TriggerAfterSettleWithDetail(<< NewTriggerEvent(<<"b">>, Str(<<"d">>)) >>),
          TriggerAfterSwap(<< <<" ", "b", " ">>, <<"a">> >>),
          TriggerAfterSwapWithDetail(<< NewTriggerEvent(<<"a">>, Nil) >>)}

\* The decorators of the chains handed to SetHeaders.
ChainDecorators ==
    { Retarget(<<"1">>),
      Retarget(<<"2">>),
      Reselect(<<"2">>),
      SetHeader(HeaderTrigger, NullText),
      Trigger(<< <<"a">> >>),
      TriggerWithDetail(<< NewTriggerEvent(<<"a">>, Str(<<"d">>)) >>),
      TriggerWithDetail(<< NewTriggerEvent(<<"e">>, Unsupported("chan int")) >>),
      TriggerWithDetail(<< NewTriggerEvent(<<"e">>, Unsupported("chan int")),
                           NewTriggerEvent(<<"e">>, Str(<<"d">>)) >>),
      TriggerAfterSwapWithDetail(<< NewTriggerEvent(<<"e">>, Unsupported("func()")) >>) }

RECURSIVE SeqsUpTo(_, _)
SeqsUpTo(S, n) ==
    IF n = 0 THEN {<<>>}
    ELSE LET shorter == SeqsUpTo(S, n - 1)
         IN  shorter \cup {Append(q, x) : q \in {r \in shorter : Len(r) = n - 1}, x \in S}

Chains == SeqsUpTo(ChainDecorators, MaxChain)

(***************************************************************************)
(* middleware: the HTMX request headers, the HTMXRequest record and the    *)
(* request context it is kept in.                                          *)
(***************************************************************************)
headerBoosted == "HX-Boosted"
headerRequest == "HX-Request"
headerCurrentURL == "HX-Current-URL"
headerHistoryRestoreRequest == "HX-History-Restore-Request"
headerTarget == "HX-Target"
headerTrigger == "HX-Trigger"
headerTriggerName == "HX-Trigger-Name"
RequestHeaderNames ==
    {headerBoosted, headerRequest, headerCurrentURL, headerHistoryRestoreRequest,
     headerTarget, headerTrigger, headerTriggerName}

\* The header of http.NewRequest: no values.
NoRequestHeaders == [name \in RequestHeaderNames |-> <<>>]

\* A context key is a value of a type: keys of different types are different keys.
HTMXRequestKey == [type |-> "ContextKey", name |-> "HTMXRequest"]
\* context.Background(), context.WithValue(parent, key, val) and ctx.Value(key)
Background == [key \in {} |-> Nil]
WithValue(parent, key, val) ==
    [k \in (DOMAIN parent) \cup {key} |-> IF k = key THEN val ELSE parent[k]]
Value(c, key) == IF key \in DOMAIN c THEN c[key] ELSE Nil

\* HTMXRequest{}
ZeroHTMXRequest ==
    [CurrentURL |-> <<>>, IsBoosted |-> FALSE, IsHistoryRestoreRequest |-> FALSE,
     IsHTMXRequest |-> FALSE, Target |-> <<>>, Trigger |-> <<>>, TriggerName |-> <<>>]

\* An extraction that takes every value but the empty string for true.
htmxRequestNotEmpty(header) ==
    [CurrentURL |-> Get(header, headerCurrentURL),
     IsBoosted |-> Get(header, headerBoosted) # <<>>,
     IsHistoryRestoreRequest |-> Get(header, headerHistoryRestoreRequest) # <<>>,
     IsHTMXRequest |-> Get(header, headerRequest) # <<>>,
     Target |-> Get(header, headerTarget),
     Trigger |-> Get(header, headerTrigger),
     TriggerName |-> Get(header, headerTriggerName)]

\* The htmxRequest WithHTMX builds from r.Header.
htmxRequest(header) ==
    [CurrentURL |-> Get(header, headerCurrentURL),
     IsBoosted |-> Get(header, headerBoosted) = <<"t", "r", "u", "e">>,
     IsHistoryRestoreRequest |->
         Get(header, headerHistoryRestoreRequest) = <<"t", "r", "u", "e">>,
     IsHTMXRequest |-> Get(header, headerRequest) = <<"t", "r", "u", "e">>,
     Target |-> Get(header, headerTarget),
     Trigger |-> Get(header, headerTrigger),
     TriggerName |-> Get(header, headerTriggerName)]

\* An HTMXRequest held in an `any`.
HTMXRequestValue(h) == [t |-> "HTMXRequest", v |-> h]

\* A lookup that reports presence whatever the context holds.
GetRequestHeadersAlwaysOk(c) ==
    IF Value(c, HTMXRequestKey).t = "HTMXRequest"
    THEN [h |-> Value(c, HTMXRequestKey).v, ok |-> TRUE]
    ELSE [h |-> ZeroHTMXRequest, ok |-> TRUE]

\* htmxRequest, ok := r.Context().Value(HTMXRequestKey).(HTMXRequest)
GetRequestHeaders(c) ==
    IF Value(c, HTMXRequestKey).t = "HTMXRequest"
    THEN [h |-> Value(c, HTMXRequestKey).v, ok |-> TRUE]
    ELSE [h |-> ZeroHTMXRequest, ok |-> FALSE]

(***************************************************************************)
(* State.                                                                  *)
(***************************************************************************)
VARIABLES
    w,        \* the headers of the response recorder
    funcs,    \* the decorators of the SetHeaders call in progress
    i,        \* the position in funcs the loop of SetHeaders has reached
    pc,       \* "idle", "loop", "returned", or "panicked"
    err,      \* the error the last call returned; "none" before any return
    invoked,  \* the positions of funcs whose decorator was called, in call order
    before,   \* the headers as they were when the last decorator was called
    log,      \* the decorators called on this recorder, in call order
    start,    \* the headers of this recorder before any decorator was called
    decoded,  \* the last call of SwapFromString: its argument and what it returned
    req,      \* the header of the request
    ctx,      \* the context of the request being served: that of r and, once
              \* WithHTMX has run, that of the copy r.WithContext(ctx)
    stage,    \* where the request is: "new", "handler" or "done"
    extracted,\* whether the handler WithHTMX returns has run for the request
    got       \* what GetRequestHeaders returned to the handler

responseVars == <<w, funcs, i, pc, err, invoked, before, log, start>>
swapVars == <<decoded>>
requestVars == <<req, ctx, stage, extracted, got>>
vars ==
    <<w, funcs, i, pc, err, invoked, before, log, start, decoded, req, ctx, stage, extracted, got>>

\* No call of SwapFromString yet; a new request that no handler has seen.
NotDecoded == [called |-> FALSE, s |-> <<>>, swap |-> SwapInnerHTML, err |-> "nil"]
NotCalled == [called |-> FALSE, h |-> ZeroHTMXRequest, ok |-> FALSE]
NewRequest ==
    /\ req = NoRequestHeaders
    /\ ctx = Background
    /\ stage = "new"
    /\ extracted = FALSE
    /\ got = NotCalled

\* httptest.NewRecorder()
Fresh ==
    /\ w = NoHeaders
    /\ funcs = <<>>
    /\ i = 0
    /\ pc = "idle"
    /\ err = "none"
    /\ invoked = <<>>
    /\ before = NoHeaders
    /\ log = <<>>
    /\ start = NoHeaders
    /\ decoded = NotDecoded
    /\ NewRequest

Init == Fresh

(***************************************************************************)
(* SetHeaders(w, funcs...)                                                 *)
(***************************************************************************)
CallSetHeaders(fs) ==
    /\ pc = "idle"
    /\ funcs' = fs
    /\ i' = 1
    /\ pc' = "loop"
    /\ UNCHANGED <<w, err, invoked, before, log, start, swapVars, requestVars>>

\* One turn of the loop: fn(w), and the return of its error if it is not nil.
\* A loop that ignores the error of a decorator and goes on.
LoopBodyIgnoresError(r) ==
    /\ w' = r.h
    /\ IF r.panic THEN pc' = "panicked" /\ UNCHANGED <<i, err>>
       ELSE i' = i + 1 /\ UNCHANGED <<pc, err>>

\* A loop that removes the headers set so far when a decorator fails.
LoopBodyRollsBack(r) ==
    /\ IF r.panic THEN w' = r.h /\ pc' = "panicked" /\ UNCHANGED <<i, err>>
       ELSE IF r.err # "nil"
            THEN w' = NoHeaders /\ pc' = "returned" /\ err' = r.err /\ UNCHANGED i
       ELSE w' = r.h /\ i' = i + 1 /\ UNCHANGED <<pc, err>>

LoopBody(r) ==
    /\ w' = r.h
    /\ IF r.panic THEN pc' = "panicked" /\ UNCHANGED <<i, err>>
       ELSE IF r.err # "nil" THEN pc' = "returned" /\ err' = r.err /\ UNCHANGED i
       ELSE i' = i + 1 /\ UNCHANGED <<pc, err>>

SetHeadersLoop ==
    /\ pc = "loop"
    /\ i <= Len(funcs)
    /\ LoopBody(Call(funcs[i], w))
    /\ before' = w
    /\ invoked' = Append(invoked, i)
    /\ log' = Append(log, funcs[i])
    /\ UNCHANGED <<funcs, start, swapVars, requestVars>>

\* The loop has run through funcs: return nil.
SetHeadersReturn ==
    /\ pc = "loop"
    /\ i > Len(funcs)
    /\ pc' = "returned"
    /\ err' = "nil"
    /\ UNCHANGED <<w, funcs, i, invoked, before, log, start, swapVars, requestVars>>

\* The next request: a new recorder.
NewRecorder ==
    /\ pc \in {"returned", "panicked"}
    /\ w' = NoHeaders
    /\ funcs' = <<>>
    /\ i' = 0
    /\ pc' = "idle"
    /\ err' = "none"
    /\ invoked' = <<>>
    /\ before' = NoHeaders
    /\ log' = <<>>
    /\ start' = NoHeaders
    /\ UNCHANGED <<swapVars, requestVars>>

Next ==
    \/ \E fs \in Chains : CallSetHeaders(fs)
    \/ SetHeadersLoop
    \/ SetHeadersReturn
    \/ NewRecorder

Spec == Init /\ [][Next]_vars

(***************************************************************************)
(* Decorators called directly, fn(w), on a recorder whose trigger header   *)
(* may already hold a value.                                               *)
(***************************************************************************)
\* w := httptest.NewRecorder(); w.Header().Set(header, value)
RecorderWith(header, value) ==
    /\ w = Set(NoHeaders, header, value)
    /\ funcs = <<>>
    /\ i = 0
    /\ pc = "idle"
    /\ err = "none"
    /\ invoked = <<>>
    /\ before = NoHeaders
    /\ log = <<>>
    /\ start = Set(NoHeaders, header, value)
    /\ decoded = NotDecoded
    /\ NewRequest

MergeInit ==
    \/ Fresh
    \/ \E value \in PriorValues : RecorderWith(HeaderTrigger, value)
    \/ RecorderWith(HeaderTriggerAfterSettle, ObjectText)
    \/ RecorderWith(HeaderTriggerAfterSwap, <<"a">>)

\* err := fn(w)
ApplyResult(r) ==
    /\ w' = r.h
    /\ IF r.panic THEN pc' = "panicked" /\ UNCHANGED err
       ELSE pc' = "returned" /\ err' = r.err

Apply(fn) ==
    /\ pc # "panicked"
    /\ Len(log) < MaxApplied
    /\ ApplyResult(Call(fn, w))
    /\ before' = w
    /\ log' = Append(log, fn)
    /\ UNCHANGED <<funcs, i, invoked, start, swapVars, requestVars>>

MergeNext == \E fn \in MergeDecorators : Apply(fn)

MergeSpec == MergeInit /\ [][MergeNext]_vars

(***************************************************************************)
(* Reswap and the Swap codec: plain decorators called on a recorder, and   *)
(* swap strings decoded, those read back from HX-Reswap among them.        *)
(***************************************************************************)
\* The plain key/value decorators applied.
PlainDecorators ==
    {Reswap(swap) : swap \in Swaps}
    \cup {SetHeader(HeaderReswap, <<"I", "n", "n", "e", "r", "H", "T", "M", "L">>),
          SetHeader(HeaderReswap, <<" ", "n", "o", "n", "e">>),
          Location(<<"a">>), PreventPushURL, Refresh, PreventRefresh}

\* The strings handed to SwapFromString.
SwapTexts ==
    {String(swap) : swap \in Swaps}
    \cup {<<>>, <<"I", "n", "n", "e", "r", "H", "T", "M", "L">>,
          <<"O", "U", "T", "E", "R", "H", "T", "M", "L">>, <<" ", "n", "o", "n", "e">>,
          <<"s", "w", "a", "p">>}

\* swap, err := hx.SwapFromString(s)
CallSwapFromString(s) ==
    /\ decoded' = [called |-> TRUE, s |-> s,
                   swap |-> SwapFromString(s).swap, err |-> SwapFromString(s).err]
    /\ UNCHANGED <<responseVars, requestVars>>

\* header := w.Header().Get("HX-Reswap"); headerSwap, _ := hx.StringToSwap(header)
ReadReswap ==
    /\ pc = "returned"
    /\ decoded' = [called |-> TRUE, s |-> Get(w, HeaderReswap),
                   swap |-> StringToSwap(Get(w, HeaderReswap)).swap,
                   err |-> StringToSwap(Get(w, HeaderReswap)).err]
    /\ UNCHANGED <<responseVars, requestVars>>

SwapNext ==
    \/ \E fn \in PlainDecorators : Apply(fn)
    \/ \E s \in SwapTexts : CallSwapFromString(s)
    \/ ReadReswap

SwapSpec == Init /\ [][SwapNext]_vars

(***************************************************************************)
(* middleware: a request is built, is served by a handler with or without  *)
(* WithHTMX around it, and the handler calls GetRequestHeaders.            *)
(***************************************************************************)
\* The values the request headers are set to.
RequestValues(name) ==
    IF name \in {headerBoosted, headerHistoryRestoreRequest, headerRequest}
    THEN {<<"t", "r", "u", "e">>, <<"T", "r", "u", "e">>, <<"1">>}
    ELSE {<<" ", "a">>}

\* req.Header.Set(name, value)
SetRequestHeader(name, value) ==
    /\ stage = "new"
    /\ req' = Set(req, name, value)
    /\ UNCHANGED <<ctx, stage, extracted, got, responseVars, swapVars>>

\* A value that other code keeps in the context, under a key of another type.
OtherKey == [type |-> "string", name |-> "HTMXRequest"]
WithOtherValue ==
    /\ stage = "new"
    /\ ctx' = WithValue(ctx, OtherKey, Str(<<"a">>))
    /\ UNCHANGED <<req, stage, extracted, got, responseVars, swapVars>>

\* middleware.WithHTMX(next).ServeHTTP(w, r): the record is built from the
\* request headers and next is served the request with the record in its context.
WithHTMX ==
    /\ stage = "new"
    /\ ctx' = WithValue(ctx, HTMXRequestKey, HTMXRequestValue(htmxRequest(req)))
    /\ extracted' = TRUE
    /\ stage' = "handler"
    /\ UNCHANGED <<req, got, responseVars, swapVars>>

\* handler.ServeHTTP(w, r) with no middleware around the handler.
ServeHTTP ==
    /\ stage = "new"
    /\ stage' = "handler"
    /\ UNCHANGED <<req, ctx, extracted, got, responseVars, swapVars>>

\* h, ok := middleware.GetRequestHeaders(r) in the handler.
CallGetRequestHeaders ==
    /\ stage = "handler"
    /\ got' = [called |-> TRUE, h |-> GetRequestHeaders(ctx).h, ok |-> GetRequestHeaders(ctx).ok]
    /\ stage' = "done"
    /\ UNCHANGED <<req, ctx, extracted, responseVars, swapVars>>

MiddlewareNext ==
    \/ \E name \in RequestHeaderNames : \E value \in RequestValues(name) :
          SetRequestHeader(name, value)
    \/ WithOtherValue
    \/ WithHTMX
    \/ ServeHTTP
    \/ CallGetRequestHeaders

MiddlewareSpec == Init /\ [][MiddlewareNext]_vars

(***************************************************************************)
(* The decorator chain: what SetHeaders is to do, stated over the whole    *)
(* chain.                                                                  *)
(***************************************************************************)
\* The headers of a new recorder after the first n decorators of fs were applied.
RECURSIVE HeadersAfter(_, _)
HeadersAfter(fs, n) == IF n = 0 THEN NoHeaders ELSE Call(fs[n], HeadersAfter(fs, n - 1)).h

\* The outcome of decorator n of fs, called after the n - 1 before it.
Outcome(fs, n) == Call(fs[n], HeadersAfter(fs, n - 1))
Fails(fs, n) == ~Outcome(fs, n).panic /\ Outcome(fs, n).err # "nil"
Succeeds(fs, n) == ~Outcome(fs, n).panic /\ Outcome(fs, n).err = "nil"

\* The header a decorator writes to.
Target(fn) == IF fn.fn = "SetHeader" THEN fn.key ELSE fn.header

FailingDetail == TriggerWithDetail(<< NewTriggerEvent(<<"e">>, Unsupported("chan int")) >>)

\* C1: SetHeaders calls its decorators in argument order, each at most once; when
\* it returns an error, that is the error of the first decorator that fails, the
\* decorators before it returned nil and none after it was called; when it returns
\* nil, every decorator was called exactly once and none failed.
C1_StopsAtFirstError ==
    /\ invoked = [k \in 1..Len(invoked) |-> k]
    /\ Len(invoked) <= Len(funcs)
    /\ (pc = "returned" /\ err # "nil") =>
          /\ Len(invoked) >= 1
          /\ Fails(funcs, Len(invoked))
          /\ err = Outcome(funcs, Len(invoked)).err
          /\ \A k \in 1..(Len(invoked) - 1) : Succeeds(funcs, k)
    /\ (pc = "returned" /\ err = "nil") =>
          /\ Len(invoked) = Len(funcs)
          /\ \A k \in 1..Len(funcs) : Succeeds(funcs, k)

\* A chain of three whose second decorator fails has returned.
C1_Witness ==
    /\ pc = "returned"
    /\ Len(funcs) = 3
    /\ funcs[2] = FailingDetail
    /\ invoked = <<1, 2>>
    /\ err = "json: unsupported type: chan int"

\* C2: when SetHeaders returns an error there is no rollback: every header a
\* decorator before the failing one wrote to holds what the last such decorator
\* left in it, and a header none of them wrote to is absent.
C2_NoRollback ==
    (pc = "returned" /\ err # "nil") =>
        \A key \in HeaderKeys :
            LET writers == {k \in 1..(Len(invoked) - 1) : Target(funcs[k]) = key}
                last == CHOOSE k \in writers : \A j \in writers : j <= k
            IN  IF writers = {} THEN ~Present(w, key)
                ELSE /\ w[key] = HeadersAfter(funcs, last)[key]
                     /\ funcs[last].fn = "SetHeader" => w[key] = <<funcs[last].value>>

\* The chain [SetHeader(A, 1), failing, SetHeader(B, 2)] has returned.
C2_Witness ==
    /\ pc = "returned"
    /\ funcs = <<Retarget(<<"1">>), FailingDetail, Reselect(<<"2">>)>>
    /\ err # "nil"
    /\ Get(w, HeaderRetarget) = <<"1">>
    /\ ~Present(w, HeaderReselect)

\* C3: when SetHeaders returns nil, a header that plain key/value decorators of
\* the chain set holds the value of the last decorator of the chain that writes
\* to it; a single SetHeader(key, value) leaves key with value and returns nil.
C3_LaterDecoratorWins ==
    /\ (pc = "returned" /\ err = "nil") =>
          \A k \in 1..Len(funcs) :
              (/\ funcs[k].fn = "SetHeader"
               /\ \A j \in (k + 1)..Len(funcs) : Target(funcs[j]) # funcs[k].key)
              => w[funcs[k].key] = <<funcs[k].value>>
    /\ (pc = "returned" /\ Len(funcs) = 1 /\ funcs[1].fn = "SetHeader") =>
          err = "nil" /\ Get(w, funcs[1].key) = funcs[1].value

\* Two decorators set HX-Retarget, first to 1 and then to 2.
C3_Witness ==
    /\ pc = "returned"
    /\ funcs = <<Retarget(<<"1">>), Retarget(<<"2">>)>>
    /\ err = "nil"
    /\ Get(w, HeaderRetarget) = <<"2">>

(***************************************************************************)
(* The trigger merge: what the last decorator called did to its header.    *)
(***************************************************************************)
Last == log[Len(log)]
NameOnly == Len(log) >= 1 /\ Last.fn = "trigger"
WithDetail == Len(log) >= 1 /\ Last.fn = "triggerWithDetail"
\* The value of the header of the last decorator before the call, and after it.
Prior == Get(before, Last.header)
Result == Get(w, Last.header)
ReturnedNil == pc = "returned" /\ err = "nil"

Range(list) == {list[k] : k \in 1..Len(list)}
HasComma(s) == \E k \in 1..Len(s) : s[k] = ","

\* The JSON value of a Go value: a struct is an object of its tagged fields.
RECURSIVE ToJSON(_)
ToJSON(val) ==
    CASE val.t = "struct" ->
            Map([key \in {f.name : f \in Range(val.v)} |->
                    ToJSON((CHOOSE f \in Range(val.v) : f.name = key).value)])
      [] val.t = "slice" -> Slice([k \in 1..Len(val.v) |-> ToJSON(val.v[k])])
      [] val.t = "map" -> Map([key \in DOMAIN val.v |-> ToJSON(val.v[key])])
      [] OTHER -> val

RECURSIVE Serializable(_)
Serializable(val) ==
    CASE val.t = "unsupported" -> FALSE
      [] val.t = "struct" -> \A f \in Range(val.v) : Serializable(f.value)
      [] val.t = "slice" -> \A k \in 1..Len(val.v) : Serializable(val.v[k])
      [] val.t = "map" -> \A key \in DOMAIN val.v : Serializable(val.v[key])
      [] OTHER -> TRUE

\* The events of the last decorator; a name-only decorator gives names without detail.
NewEvents ==
    IF Last.fn = "trigger"
    THEN [k \in 1..Len(Last.eventNames) |-> NewTriggerEvent(Last.eventNames[k], Nil)]
    ELSE Last.events
NewNames == {ev.Name : ev \in Range(NewEvents)}
AllSerializable == \A ev \in Range(NewEvents) : Serializable(ev.Detail)
\* The detail of the last of the new events with this name, as JSON.
LastDetail(name) ==
    LET at == {k \in 1..Len(NewEvents) : NewEvents[k].Name = name}
    IN  ToJSON(NewEvents[CHOOSE k \in at : \A j \in at : j <= k].Detail)

\* A text that is one JSON object, and the mapping it holds.
IsObject(parsed) == parsed.ok /\ parsed.v.t = "map"
IsJSONObject(text) == IsObject(Decode(text))
ObjectOf(text) == Decode(text).v.v

\* C4: a name-only trigger decorator applied to a header with no value (absent or
\* empty) returns nil and leaves in the header the names, each trimmed of the
\* white space around it, joined with ", " in the order given, duplicates kept.
C4_NamesTrimmedAndJoined ==
    (NameOnly /\ Prior = <<>>) =>
        /\ ReturnedNil
        /\ Present(w, Last.header)
        /\ Result = Join(TrimAll(Last.eventNames))

\* Trigger(" b ", "a") on a new recorder leaves "b, a".
C4_Witness ==
    /\ log = << Trigger(<< <<" ", "b", " ">>, <<"a">> >>) >>
    /\ ~Present(before, HeaderTrigger)
    /\ Get(w, HeaderTrigger) = <<"b", ",", " ", "a">>

\* The prior value is a comma separated list: it has a value that is not JSON.
PriorIsList == Prior # <<>> /\ ~UnmarshalAnyOk(Prior)

\* C5 as stated: on a prior value that is not JSON a name-only decorator leaves
\* the trimmed pieces of the prior value followed by the new names as given,
\* joined with ", ", and the header has as many comma separated entries as
\* before plus the number of new names.
C5_AppendsNamesAsGiven ==
    (NameOnly /\ PriorIsList) =>
        /\ Result = Join(TrimAll(Split(Prior)) \o Last.eventNames)
        /\ Len(Split(Result)) = Len(Split(Prior)) + Len(Last.eventNames)

\* C5 amended: the new names are appended trimmed; the entries joined are those
\* before plus one for each new name, which is the number of comma separated
\* entries of the header when no new name holds a comma.
C5_AppendsTrimmedNames ==
    (NameOnly /\ PriorIsList) =>
        /\ ReturnedNil
        /\ Result = Join(TrimAll(Split(Prior)) \o TrimAll(Last.eventNames))
        /\ (\A name \in Range(Last.eventNames) : ~HasComma(name)) =>
              Len(Split(Result)) = Len(Split(Prior)) + Len(Last.eventNames)

\* Trigger(" b ", "a") on the prior value " a ,b," leaves "a, b, , b, a".
C5_Witness ==
    /\ log = << Trigger(<< <<" ", "b", " ">>, <<"a">> >>) >>
    /\ Get(before, HeaderTrigger) = <<" ", "a", " ", ",", "b", ",">>
    /\ Get(w, HeaderTrigger) =
          <<"a", ",", " ", "b", ",", " ", ",", " ", "b", ",", " ", "a">>

\* The mapping json.Unmarshal leaves in a map: the members of an object, none for null.
MappingOf(text) == IF IsJSONObject(text) THEN ObjectOf(text) ELSE EmptyMap
\* The mapping with the new events stored over it, as JSON.
WithNewEvents(m) ==
    [name \in (DOMAIN m) \cup NewNames |-> IF name \in NewNames THEN LastDetail(name) ELSE m[name]]

\* C6: on a prior value that is valid JSON, a trigger decorator (name-only or
\* with serializable details) returns nil and leaves a value that parses as
\* JSON; where the prior value holds a mapping (an object, or null for none) the
\* value left is that mapping with the new events stored over it, an event
\* without detail as null.
C6_JSONPriorMerged ==
    (Len(log) >= 1 /\ Last.fn \in {"trigger", "triggerWithDetail"}
        /\ Prior # <<>> /\ UnmarshalAnyOk(Prior) /\ AllSerializable) =>
        /\ ReturnedNil
        /\ UnmarshalAnyOk(Result)
        /\ UnmarshalMap(Prior).ok => MappingOf(Result) = WithNewEvents(MappingOf(Prior))

\* C7: on a prior value that is not JSON, a with-detail decorator whose details
\* serialize returns nil and leaves a JSON object; its keys are the trimmed
\* pieces of the prior value and the new names, and a prior name that no new
\* event has maps to null.
C7_ListBecomesObject ==
    (WithDetail /\ PriorIsList /\ AllSerializable) =>
        /\ ReturnedNil
        /\ IsJSONObject(Result)
        /\ DOMAIN ObjectOf(Result) = Range(TrimAll(Split(Prior))) \cup NewNames
        /\ \A name \in Range(TrimAll(Split(Prior))) \ NewNames : ObjectOf(Result)[name] = Nil

\* TriggerWithDetail(("b", struct), (" a", ["a", nil]), ("b", 1)) on the prior value
\* " a ,b," leaves {"":null," a":["a",null],"a":null,"b":1}.
C7_Witness ==
    /\ Len(log) = 1 /\ WithDetail /\ Len(Last.events) = 3
    /\ Get(before, HeaderTrigger) = <<" ", "a", " ", ",", "b", ",">>
    /\ Get(w, HeaderTrigger) =
          <<"{", "\"", "\"", ":", "n", "u", "l", "l", ",",
            "\"", " ", "a", "\"", ":", "[", "\"", "a", "\"", ",", "n", "u", "l", "l", "]", ",",
            "\"", "a", "\"", ":", "n", "u", "l", "l", ",",
            "\"", "b", "\"", ":", "1", "}">>

\* C8: a with-detail decorator whose details serialize, applied to a header with
\* no value, returns nil and leaves a JSON object whose keys are the names given
\* and whose value for a name is the detail of the last event of that name; it
\* is an object also when every detail is nil.
C8_DetailsAsObject ==
    (WithDetail /\ Prior = <<>> /\ AllSerializable) =>
        /\ ReturnedNil
        /\ IsJSONObject(Result)
        /\ Head(Result) = "{"
        /\ DOMAIN ObjectOf(Result) = NewNames
        /\ \A name \in NewNames : ObjectOf(Result)[name] = LastDetail(name)

\* TriggerWithDetail(("a", nil)) on a new recorder leaves {"a":null}.
C8_Witness ==
    /\ log = << TriggerWithDetail(<< NewTriggerEvent(<<"a">>, Nil) >>) >>
    /\ ~Present(before, HeaderTrigger)
    /\ Get(w, HeaderTrigger) = <<"{", "\"", "a", "\"", ":", "n", "u", "l", "l", "}">>

\* The event names a header value holds: the keys of a JSON object, and else the
\* trimmed entries of the comma separated list; none when there is no value.
EventNames(text) ==
    IF text = <<>> THEN {}
    ELSE IF IsJSONObject(text) THEN DOMAIN ObjectOf(text)
    ELSE Range(TrimAll(Split(text)))

C10_TwiceAccumulates ==
    \A name \in {names[1] : names \in {l \in NameLists : Len(l) = 1}} :
        (/\ log = << Trigger(<<name>>), Trigger(<<name>>) >>
         /\ ~HasComma(name) /\ TrimSpace(name) # <<>>
         /\ Get(before, HeaderTrigger) = TrimSpace(name)) =>
            /\ ReturnedNil
            /\ Get(w, HeaderTrigger) = TrimSpace(name) \o <<",", " ">> \o TrimSpace(name)
            /\ Get(w, HeaderTrigger) =
                  Get(Call(Trigger(<<name, name>>), NoHeaders).h, HeaderTrigger)

(***************************************************************************)
(* Errors.                                                                 *)
(***************************************************************************)
\* The detail triggerEvents holds for a new name: that of the last event of the name.
StoredDetail(name) ==
    LET at == {k \in 1..Len(NewEvents) : NewEvents[k].Name = name}
    IN  NewEvents[CHOOSE k \in at : \A j \in at : j <= k].Detail
\* The new names whose stored detail json.Marshal cannot serialize.
Unserializable == {name \in NewNames : ~Serializable(StoredDetail(name))}

\* C11: when a with-detail decorator called by SetHeaders stores a detail that
\* json.Marshal cannot serialize, SetHeaders has returned the error of Marshal
\* with the decorator the last one called, and every header is as it was before
\* the decorator was called.
C11_FailedDetailWritesNothing ==
    (/\ Len(log) >= 1 /\ Last.fn = "triggerWithDetail"
     /\ Unserializable # {}
     /\ CurrentEvents(Prior) # NilMap) =>
        /\ pc = "returned"
        /\ err \in {UnsupportedTypeError(StoredDetail(name).v).err : name \in Unserializable}
        /\ w = before
        /\ i = Len(log) /\ invoked = [k \in 1..i |-> k]

\* The chain [TriggerWithDetail(("a", "d")), failing, Retarget(1)] has returned:
\* HX-Trigger holds {"a":"d"} and HX-Retarget was not set.
C11_Witness ==
    /\ pc = "returned"
    /\ funcs = <<TriggerWithDetail(<< NewTriggerEvent(<<"a">>, Str(<<"d">>)) >>),
                 FailingDetail, Retarget(<<"1">>)>>
    /\ err = "json: unsupported type: chan int"
    /\ Get(w, HeaderTrigger) = <<"{", "\"", "a", "\"", ":", "\"", "d", "\"", "}">>
    /\ ~Present(w, HeaderRetarget)

\* C12: a plain key/value decorator and a name-only trigger decorator return nil
\* whatever the headers hold, and an error that SetHeaders returns is the error
\* of a with-detail decorator that stored a detail json.Marshal cannot serialize.
C12_OnlyDetailCanFail ==
    /\ (Len(log) >= 1 /\ Last.fn \in {"SetHeader", "trigger"}) =>
          /\ pc # "panicked"
          /\ pc = "returned" => err = "nil"
    /\ (pc = "returned" /\ err # "nil") =>
          Last.fn = "triggerWithDetail" /\ Unserializable # {}

(***************************************************************************)
(* The three trigger headers.                                              *)
(***************************************************************************)
\* The last decorator built for another header, called on a recorder that holds
\* nothing but, in that header, what the header of the last decorator held.
Retargeted(header) ==
    Call([Last EXCEPT !.header = header], [NoHeaders EXCEPT ![header] = before[Last.header]])

\* The outcome r of a call left in header what the last decorator left in its
\* header, and returned or panicked as the last decorator did.
SameOutcome(r, header) ==
    /\ r.h[header] = w[Last.header]
    /\ r.panic = (pc = "panicked")
    /\ pc = "returned" => r.err = err

\* C13: the six trigger decorators target HX-Trigger, HX-Trigger-After-Settle
\* and HX-Trigger-After-Swap, two each; a trigger decorator leaves every header
\* but its own as it was, and what it leaves in its own header, and what it
\* returns, is what the decorator for any of the three headers leaves and
\* returns when only that header holds the same prior value.
C13_OwnHeaderOnly ==
    /\ Trigger(<<>>).header = "HX-Trigger"
    /\ TriggerWithDetail(<<>>).header = "HX-Trigger"
    /\ TriggerAfterSettle(<<>>).header = "HX-Trigger-After-Settle"
    /\ TriggerAfterSettleWithDetail(<<>>).header = "HX-Trigger-After-Settle"
    /\ TriggerAfterSwap(<<>>).header = "HX-Trigger-After-Swap"
    /\ TriggerAfterSwapWithDetail(<<>>).header = "HX-Trigger-After-Swap"
    /\ (Len(log) >= 1 /\ Last.fn \in {"trigger", "triggerWithDetail"}) =>
          /\ \A key \in HeaderKeys \ {Last.header} : w[key] = before[key]
          /\ \A header \in TriggerHeaders : SameOutcome(Retargeted(header), header)

\* Trigger("a") and then TriggerAfterSettleWithDetail(("b", "d")) on a new recorder:
\* HX-Trigger still holds a, HX-Trigger-After-Settle holds {"b":"d"} and
\* HX-Trigger-After-Swap is absent.
C13_Witness ==
    /\ log = << Trigger(<< <<"a">> >>),
                TriggerAfterSettleWithDetail(<< NewTriggerEvent(<<"b">>, Str(<<"d">>)) >>) >>
    /\ Get(w, HeaderTrigger) = <<"a">>
    /\ Get(w, HeaderTriggerAfterSettle) = <<"{", "\"", "b", "\"", ":", "\"", "d", "\"", "}">>
    /\ ~Present(w, HeaderTriggerAfterSwap)

(***************************************************************************)
(* The Swap codec.                                                         *)
(***************************************************************************)
\* The eight wire forms of a swap.
WireForms ==
    {<<"i", "n", "n", "e", "r", "H", "T", "M", "L">>,
     <<"o", "u", "t", "e", "r", "H", "T", "M", "L">>,
     <<"b", "e", "f", "o", "r", "e", "b", "e", "g", "i", "n">>,
     <<"a", "f", "t", "e", "r", "b", "e", "g", "i", "n">>,
     <<"b", "e", "f", "o", "r", "e", "e", "n", "d">>,
     <<"a", "f", "t", "e", "r", "e", "n", "d">>,
     <<"d", "e", "l", "e", "t", "e">>,
     <<"n", "o", "n", "e">>}

\* C14: SwapFromString and StringToSwap give back every swap from its String
\* with a nil error, the eight strings differ from each other, Reswap(v) leaves
\* the String of v in HX-Reswap and returns nil, and a decoding of the String of
\* v, read back from HX-Reswap or not, has given v.
C14_SwapRoundTrip ==
    /\ \A v \in Swaps :
          /\ SwapFromString(String(v)) = [swap |-> v, err |-> "nil"]
          /\ StringToSwap(String(v)) = [swap |-> v, err |-> "nil"]
          /\ \A u \in Swaps \ {v} : String(u) # String(v)
          /\ (Len(log) >= 1 /\ Last = Reswap(v)) =>
                /\ ReturnedNil
                /\ Get(w, HeaderReswap) = String(v)
                /\ StringToSwap(Get(w, HeaderReswap)).swap = v
          /\ (decoded.called /\ decoded.s = String(v)) =>
                decoded.swap = v /\ decoded.err = "nil"
    /\ Cardinality({String(v) : v \in Swaps}) = 8

\* Reswap(SwapAfterBegin) on a new recorder, and HX-Reswap read back: afterbegin
\* has given SwapAfterBegin.
C14_Witness ==
    /\ log = << Reswap(SwapAfterBegin) >>
    /\ decoded.called
    /\ decoded.s = Get(w, HeaderReswap)
    /\ decoded.s = <<"a", "f", "t", "e", "r", "b", "e", "g", "i", "n">>
    /\ decoded.swap = SwapAfterBegin
    /\ decoded.err = "nil"

\* C15: SwapFromString returns an error exactly when its argument is none of the
\* eight wire forms, letter for letter; with the error it returns SwapInnerHTML,
\* which it also returns, without an error, for innerHTML.
C15_ExactMatchOrDefault ==
    /\ Cardinality(WireForms) = 8
    /\ decoded.called =>
          /\ decoded.err # "nil" <=> decoded.s \notin WireForms
          /\ decoded.err # "nil" => decoded.swap = SwapInnerHTML
          /\ decoded.s = <<"i", "n", "n", "e", "r", "H", "T", "M", "L">> =>
                decoded.swap = SwapInnerHTML /\ decoded.err = "nil"

\* InnerHTML has been decoded: an error, and SwapInnerHTML.
C15_Witness ==
    /\ decoded.called
    /\ decoded.s = <<"I", "n", "n", "e", "r", "H", "T", "M", "L">>
    /\ decoded.err = "invalid Swap value"
    /\ decoded.swap = SwapInnerHTML

(***************************************************************************)
(* The request headers.                                                    *)
(***************************************************************************)
IsTrue(value) == value = <<"t", "r", "u", "e">>
\* The record is what the claim says of the request headers.
Reflects(h) ==
    /\ h.IsBoosted <=> IsTrue(Get(req, headerBoosted))
    /\ h.IsHistoryRestoreRequest <=> IsTrue(Get(req, headerHistoryRestoreRequest))
    /\ h.IsHTMXRequest <=> IsTrue(Get(req, headerRequest))
    /\ h.CurrentURL = Get(req, headerCurrentURL)
    /\ h.Target = Get(req, headerTarget)
    /\ h.Trigger = Get(req, headerTrigger)
    /\ h.TriggerName = Get(req, headerTriggerName)
    /\ \A name \in {headerBoosted, headerHistoryRestoreRequest, headerRequest} :
          IsTrue(Get(req, name)) <=> req[name] = << <<"t", "r", "u", "e">> >>
    /\ \A name \in RequestHeaderNames : ~Present(req, name) => Get(req, name) = <<>>

\* C16: once WithHTMX has run, the record in the context of the request, and the
\* record GetRequestHeaders returns to the handler, has each of IsBoosted,
\* IsHistoryRestoreRequest and IsHTMXRequest true exactly when its request header
\* is the string true, and has in CurrentURL, Target, Trigger and TriggerName
\* the value of its request header, empty when the header is absent.
C16_RecordReflectsHeaders ==
    extracted =>
        /\ Value(ctx, HTMXRequestKey).t = "HTMXRequest"
        /\ Reflects(Value(ctx, HTMXRequestKey).v)
        /\ got.called => Reflects(got.h)

\* A request with HX-Request true, HX-Boosted True, HX-History-Restore-Request 1,
\* HX-Target " a" and no other header, seen by a handler inside WithHTMX.
C16_Witness ==
    /\ extracted /\ got.called /\ got.ok
    /\ Get(req, headerRequest) = <<"t", "r", "u", "e">> /\ got.h.IsHTMXRequest
    /\ Get(req, headerBoosted) = <<"T", "r", "u", "e">> /\ ~got.h.IsBoosted
    /\ Get(req, headerHistoryRestoreRequest) = <<"1">> /\ ~got.h.IsHistoryRestoreRequest
    /\ got.h.Target = <<" ", "a">>
    /\ ~Present(req, headerCurrentURL) /\ got.h.CurrentURL = <<>>

\* C17: GetRequestHeaders returns ok = true to the handler exactly when WithHTMX
\* has run for the request; it then returns all defaults for a request without
\* headers, and with ok = false it returns the zero record.
C17_OkIffExtracted ==
    got.called =>
        /\ got.ok <=> extracted
        /\ ~got.ok => got.h = ZeroHTMXRequest
        /\ (extracted /\ req = NoRequestHeaders) => got.h = ZeroHTMXRequest /\ got.ok

\* A request with HX-Request true, served without WithHTMX: ok = false and the
\* zero record.
C17_Witness ==
    /\ got.called /\ ~extracted
    /\ Get(req, headerRequest) = <<"t", "r", "u", "e">>
    /\ ~got.ok /\ got.h = ZeroHTMXRequest

(***************************************************************************)
(* Event names as keys.                                                    *)
(***************************************************************************)
\* The name with A for a: the two letters of the inputs that differ in case only.
Fold(name) == [k \in 1..Len(name) |-> IF name[k] = "A" THEN "a" ELSE name[k]]
\* Two names that differ, but only in letter case or in the white space around them.
NearlyEqual(a, b) == a # b /\ Fold(TrimSpace(a)) = Fold(TrimSpace(b))

\* The object new is the object old with the new events stored by exact name.
Replaced(old, new) ==
    /\ DOMAIN new = (DOMAIN old) \cup NewNames
    /\ \A name \in NewNames : new[name] = LastDetail(name)
    /\ \A key \in (DOMAIN old) \ NewNames : new[key] = old[key]
    /\ \A key \in DOMAIN old : \A name \in NewNames :
          NearlyEqual(name, key) =>
              /\ {name, key} \subseteq DOMAIN new
              /\ key \notin NewNames => new[key] = old[key]

\* C18: when a trigger decorator returns nil on a header that held a JSON
\* object, the keys of the object it leaves are the keys before and the new
\* names as given; a key that is no new name, letter for letter, keeps its
\* detail, also when a new name differs from it only in case or surrounding
\* white space, and a new name has the detail of the last new event of the name.
C18_ExactNameReplaces ==
    (Len(log) >= 1 /\ Last.fn \in {"trigger", "triggerWithDetail"}
        /\ IsJSONObject(Prior) /\ ReturnedNil) =>
        /\ IsJSONObject(Result)
        /\ Replaced(ObjectOf(Prior), ObjectOf(Result))

\* TriggerWithDetail(("A", "d"), ("a ", 2)) on {"a":{"m":"x"}, "b":1} leaves
\* {"A":"d","a":{"m":"x"},"a ":2,"b":1}.
C18_Witness ==
    /\ log = << TriggerWithDetail(<< NewTriggerEvent(<<"A">>, Str(<<"d">>)),
                                     NewTriggerEvent(<<"a", " ">>, Num(<<"2">>)) >>) >>
    /\ Get(before, HeaderTrigger) = ObjectText
    /\ Get(w, HeaderTrigger) =
          <<"{", "\"", "A", "\"", ":", "\"", "d", "\"", ",",
            "\"", "a", "\"", ":", "{", "\"", "m", "\"", ":", "\"", "x", "\"", "}", ",",
            "\"", "a", " ", "\"", ":", "2", ",",
            "\"", "b", "\"", ":", "1", "}">>

\* The last decorator wrote a comma separated list: it is name-only and the
\* header held no JSON. Otherwise it wrote what json.Marshal made of a map.
ListForm == NameOnly /\ (Prior = <<>> \/ ~UnmarshalAnyOk(Prior))
ObjectForm == ~ListForm /\ CurrentEvents(Prior) # NilMap
\* The trimmed names of a prior value that is read as a comma separated list.
ParsedNames == IF Prior = <<>> THEN <<>> ELSE TrimAll(Split(Prior))

\* C19 as stated: the names of a prior comma separated list are trimmed, and the
\* new names are used as given, as entries of the list and as keys of the JSON
\* object.
C19_NewNamesNeverTrimmed ==
    (Len(log) >= 1 /\ Last.fn \in {"trigger", "triggerWithDetail"} /\ ReturnedNil) =>
        /\ ListForm => Result = Join(ParsedNames \o Last.eventNames)
        /\ ObjectForm =>
              /\ IsJSONObject(Result)
              /\ NewNames \subseteq DOMAIN ObjectOf(Result)
              /\ ~UnmarshalMap(Prior).ok =>
                    DOMAIN ObjectOf(Result) = Range(ParsedNames) \cup NewNames

\* C19 amended: the names of a prior comma separated list are trimmed; the new
\* names are trimmed as well where the decorator writes a comma separated list,
\* and are used as given where it writes a JSON object.
C19_NewNamesTrimmedInListOnly ==
    (Len(log) >= 1 /\ Last.fn \in {"trigger", "triggerWithDetail"} /\ ReturnedNil) =>
        /\ ListForm => Result = Join(ParsedNames \o TrimAll(Last.eventNames))
        /\ ObjectForm =>
              /\ IsJSONObject(Result)
              /\ NewNames \subseteq DOMAIN ObjectOf(Result)
              /\ ~UnmarshalMap(Prior).ok =>
                    DOMAIN ObjectOf(Result) = Range(ParsedNames) \cup NewNames

\* Trigger(" b ", "a") on a new recorder has left "b, a", and then
\* TriggerWithDetail(("b", struct), (" a", ["a", nil]), ("b", 1)) has left
\* {" a":["a",null],"a":null,"b":1}.
C19_Witness ==
    /\ Len(log) = 2
    /\ log[1] = Trigger(<< <<" ", "b", " ">>, <<"a">> >>)
    /\ WithDetail /\ Len(Last.events) = 3
    /\ Get(before, HeaderTrigger) = <<"b", ",", " ", "a">>
    /\ Get(w, HeaderTrigger) =
          <<"{", "\"", " ", "a", "\"", ":", "[", "\"", "a", "\"", ",", "n", "u", "l", "l", "]", ",",
            "\"", "a", "\"", ":", "n", "u", "l", "l", ",",
            "\"", "b", "\"", ":", "1", "}">>

\* C20: a trigger header that holds a JSON object holds a JSON object after
\* every further step, whichever trigger decorator is called and whatever it
\* returns.
C20_ObjectFormSticky ==
    [][\A header \in TriggerHeaders :
          IsJSONObject(Get(w, header)) => IsJSONObject(Get(w', header))]_vars

\* TriggerWithDetail(("a", "d")) and then Trigger(" b ", "a") on a new recorder:
\* {"a":"d"} has become {" b ":null,"a":null}, and has not become a list.
C20_Witness ==
    /\ log = << TriggerWithDetail(<< NewTriggerEvent(<<"a">>, Str(<<"d">>)) >>),
                Trigger(<< <<" ", "b", " ">>, <<"a">> >>) >>
    /\ ReturnedNil
    /\ Get(before, HeaderTrigger) = <<"{", "\"", "a", "\"", ":", "\"", "d", "\"", "}">>
    /\ Get(w, HeaderTrigger) =
          <<"{", "\"", " ", "b", " ", "\"", ":", "n", "u", "l", "l", ",",
            "\"", "a", "\"", ":", "n", "u", "l", "l", "}">>

(***************************************************************************)
(* Name-only decorators on JSON, panics, and the order of events.          *)
(***************************************************************************)
\* The outcome r of the with-detail decorator is that of the last decorator, which
\* has returned nil and has left every new name as a key with null.
SameAsWithDetail(r) ==
    /\ ~r.panic /\ r.err = "nil"
    /\ ReturnedNil
    /\ w = r.h
    /\ Last.eventNames # <<>> =>
          /\ IsJSONObject(Result)
          /\ \A name \in Range(Last.eventNames) :
                name \in DOMAIN MappingOf(Result) /\ MappingOf(Result)[name] = Nil

\* C21: a name-only decorator called on a header that holds JSON leaves what the
\* with-detail decorator for the header leaves when called with the same names
\* and nil details: each name as given is a key of the object, with null.
C21_NameOnlyAsNilDetails ==
    (NameOnly /\ Prior # <<>> /\ UnmarshalAnyOk(Prior)) =>
        SameAsWithDetail(Call(triggerWithDetail(Last.header, NewEvents), before))

\* C22: a call of a trigger decorator returns, with nil or with an error, and
\* when it returns an error every header is as it was before the call.
C22_NeverPanics ==
    (Len(log) >= 1 /\ Last.fn \in {"trigger", "triggerWithDetail"}) =>
        /\ pc = "returned"
        /\ err # "nil" => w = before

\* The value in header after the decorators fns were called in turn on headers h;
\* no value when one of them did not return nil.
RECURSIVE ValueAfter(_, _, _)
RECURSIVE ValueAfterHead(_, _, _)
ValueAfter(fns, h, header) ==
    IF fns = <<>> THEN [ok |-> TRUE, s |-> Get(h, header)]
    ELSE ValueAfterHead(Call(Head(fns), h), Tail(fns), header)
ValueAfterHead(r, fns, header) ==
    IF r.panic \/ r.err # "nil" THEN [ok |-> FALSE, s |-> <<>>]
    ELSE ValueAfter(fns, r.h, header)

\* The text is JSON and its value is that of the header of the last decorator.
SameJSON(text) == text.ok /\ Decode(text.s).ok /\ Decode(text.s).v = Decode(Result).v

\* The last two decorators called are with-detail decorators for one header, each
\* with one event, the names different and the details serializable.
TwoEvents ==
    /\ Len(log) = 2 /\ log[1].fn = "triggerWithDetail" /\ WithDetail
    /\ log[1].header = Last.header
    /\ Len(log[1].events) = 1 /\ Len(Last.events) = 1
    /\ log[1].events[1].Name # Last.events[1].Name
    /\ Serializable(log[1].events[1].Detail) /\ Serializable(Last.events[1].Detail)

\* The header holds the JSON that second and then first, and one call with both
\* events, leave in it.
AnyOrder(first, second) ==
    /\ SameJSON(ValueAfter(<<triggerWithDetail(Last.header, <<second>>),
                             triggerWithDetail(Last.header, <<first>>)>>,
                           start, Last.header))
    /\ SameJSON(ValueAfter(<<triggerWithDetail(Last.header, <<first, second>>)>>,
                           start, Last.header))
    /\ SameJSON(ValueAfter(<<triggerWithDetail(Last.header, <<second, first>>)>>,
                           start, Last.header))

\* C23: when two with-detail decorators for one header, each with one event, the
\* names different and the details serializable, were called one after the
\* other on a header that was absent, empty, a comma separated list or a JSON
\* object, both have returned nil and the header holds a JSON object; calling
\* them in the other order, and calling one decorator with both events, leaves
\* the same JSON.
C23_OrderIndependent ==
    TwoEvents =>
        /\ ReturnedNil
        /\ IsJSONObject(Result)
        /\ AnyOrder(log[1].events[1], Last.events[1])

\* TriggerWithDetail(("b", struct)) and then TriggerWithDetail(("a", "d")) on the
\* prior value " a ,b,": the header holds
\* {"":null,"a":"d","b":{"l":2,"m":"x\""}}.
C23_Witness ==
    /\ log = << TriggerWithDetail(<< NewTriggerEvent(<<"b">>, StructDetail) >>),
                TriggerWithDetail(<< NewTriggerEvent(<<"a">>, Str(<<"d">>)) >>) >>
    /\ Get(start, HeaderTrigger) = <<" ", "a", " ", ",", "b", ",">>
    /\ ReturnedNil
    /\ ObjectOf(Result) = ObjectOf(
          <<"{", "\"", "\"", ":", "n", "u", "l", "l", ",",
            "\"", "a", "\"", ":", "\"", "d", "\"", ",",
            "\"", "b", "\"", ":", "{", "\"", "l", "\"", ":", "2", ",",
            "\"", "m", "\"", ":", "\"", "x", "\\", "\"", "\"", "}", "}">>)

====
